---- MODULE Spec2Model ----
(***************************************************************************)
(* Blogicum (django_sprint4): the relational store (users, categories,     *)
(* posts, comments), the clock, and one action per HTTP handler of         *)
(* blog/views.py.  Every handler records the request it served and the     *)
(* response it gave in `last`.  Users and categories exist from the start; *)
(* the admin changes a category's is_published flag.  Pagination is left   *)
(* out: a listing is the whole queryset.                                   *)
(***************************************************************************)
EXTENDS Integers, FiniteSets, Sequences, TLC

\* ---------------------------------------------------------------- bounds
MaxPostId == 1
MaxCommentId == 1
MaxTime == 1

\* ------------------------------------------------------------ input sets
UserIds == {"u1", "u2"}
Anonymous == "anon"
NoUser == "-"
AnyMethod == "*"
Names == {"n1", "n2", "n3"}
Slugs == {"c1", "c2"}
MissingSlug == "c0"
Methods == {"GET", "POST"}
Texts == {"a", "b"}
PostIds == 1..MaxPostId
CommentIds == 1..MaxCommentId
Times == 0..MaxTime

VARIABLES
    users,          \* auth User table: user id -> [username]
    categories,     \* Category table: slug -> [is_published]
    posts,          \* Post table: id -> [author, category, is_published, pub_date]
    comments,       \* Comment table: id -> [author, post, text]
    post_seq,       \* last id handed out by the Post primary-key sequence
    comment_seq,    \* last id handed out by the Comment primary-key sequence
    now,            \* timezone.now()
    last            \* the request served by the last step and its response

store == <<users, categories, posts, comments, post_seq, comment_seq>>
vars == <<users, categories, posts, comments, post_seq, comment_seq, now, last>>

\* ------------------------------------------------------------- utilities
Empty == [x \in {} |-> 0]

Put(f, k, v) == [x \in (DOMAIN f) \cup {k} |-> IF x = k THEN v ELSE f[x]]

Drop(f, ks) == [x \in (DOMAIN f) \ ks |-> f[x]]

Requesters == (DOMAIN users) \cup {Anonymous}

Response(route, method, user, post_id, comment_id, key, status, shown) ==
    [route |-> route, method |-> method, user |-> user, post_id |-> post_id,
     comment_id |-> comment_id, key |-> key, status |-> status,
     shown |-> shown]

\* request.user.is_authenticated, as tested by LoginRequiredMixin.dispatch
is_authenticated(user) == user \in DOMAIN users

\* ------------------------------------------------------------ the forms
\* what a POST to the post form submits
PostFormData ==
    [category : Slugs \cup {MissingSlug}, is_published : BOOLEAN,
     pub_date : Times]

\* the same with an author entry, which the form has no field for
SpoofedFormData ==
    [category : Slugs \cup {MissingSlug}, is_published : BOOLEAN,
     pub_date : Times, author : UserIds]

\* a GET request submits nothing
Submitted(method, forms) ==
    IF method = "GET" THEN {CHOOSE d \in forms : TRUE} ELSE forms

\* the submissions that pass validation
ValidFormData == {d \in PostFormData : d.category \in Slugs}

\* one submission only
PlainFormData ==
    {d \in PostFormData :
        d.category = "c1" /\ d.is_published /\ d.pub_date = 0}

\* PostForm.is_valid: the category choice must name a stored category
PostForm_is_valid(data) == data.category \in DOMAIN categories

\* a PostForm that does not exclude the author field
PostForm_construct_instance_WithAuthor(instance, data) ==
    [instance EXCEPT !.category = data.category,
                     !.is_published = data.is_published,
                     !.pub_date = data.pub_date,
                     !.author = data.author]

\* PostForm with exclude = ['author']: every field but author is copied
\* from the submitted data onto the instance
PostForm_construct_instance(instance, data) ==
    [instance EXCEPT !.category = data.category,
                     !.is_published = data.is_published,
                     !.pub_date = data.pub_date]

\* UserProfileForm.is_valid: username is unique among the other users
UserProfileForm_is_valid(user, name) ==
    \A u \in (DOMAIN users) \ {user} : users[u].username # name

\* ---------------------------------------------------------- the queries
\* a listing that forgets the category's flag
PostListView_get_queryset_NoCategory ==
    {p \in DOMAIN posts :
        /\ posts[p].is_published
        /\ posts[p].pub_date <= now}

\* PostListView.get_queryset
PostListView_get_queryset ==
    {p \in DOMAIN posts :
        /\ posts[p].is_published
        /\ posts[p].pub_date <= now
        /\ categories[posts[p].category].is_published}

\* a delete view whose queryset is not scoped to the requester
PostDeleteView_get_queryset_All(user) ==
    DOMAIN posts

\* PostDeleteView.get_queryset
PostDeleteView_get_queryset(user) ==
    {p \in DOMAIN posts : posts[p].author = user}

\* a detail view without the author's bypass
PostDetailView_get_object_NoAuthor(user, p) ==
    /\ posts[p].is_published
    /\ categories[posts[p].category].is_published
    /\ posts[p].pub_date <= now

\* PostDetailView.get_object: TRUE when the post is returned, FALSE when
\* Http404 is raised (the post is known to exist)
PostDetailView_get_object(user, p) ==
    \/ posts[p].author = user
    \/ /\ posts[p].is_published
       /\ categories[posts[p].category].is_published
       /\ posts[p].pub_date <= now

\* ProfileView.get_queryset, once the profile user is found
ProfileView_get_queryset(viewer, profile) ==
    {p \in DOMAIN posts : posts[p].author = profile}

\* a category lookup by slug alone
CategoryPostsView_get_category_Any(slug) ==
    {c \in DOMAIN categories : c = slug}

\* CategoryPostsView's get_object_or_404(Category, slug=..., is_published=True)
CategoryPostsView_get_category(slug) ==
    {c \in DOMAIN categories : c = slug /\ categories[c].is_published}

\* CategoryPostsView.get_queryset, once the category is found
CategoryPostsView_get_queryset(slug) ==
    {p \in DOMAIN posts :
        /\ posts[p].category = slug
        /\ posts[p].is_published
        /\ posts[p].pub_date <= now
        /\ categories[posts[p].category].is_published}

\* dispatch methods that let any requester through
PostUpdateView_is_owner_Skip(user, p) == TRUE

EditCommentView_is_owner_Skip(user, c) == TRUE

DeleteCommentView_is_owner_Skip(user, c) == TRUE

\* the ownership tests of the three overridden dispatch methods
PostUpdateView_is_owner(user, p) == posts[p].author = user

EditCommentView_is_owner(user, c) == comments[c].author = user

DeleteCommentView_is_owner(user, c) == comments[c].author = user

\* Comment.post is a cascading foreign key: the comments of the posts ps
CommentsOf(ps) == {c \in DOMAIN comments : comments[c].post \in ps}

\* ----------------------------------------------------------------- Init
\* two registered users, two published categories, no post, no comment
Init ==
    /\ users = [u \in UserIds |-> [username |-> IF u = "u1" THEN "n1" ELSE "n2"]]
    /\ categories = [c \in Slugs |-> [is_published |-> TRUE]]
    /\ posts = Empty
    /\ comments = Empty
    /\ post_seq = 0
    /\ comment_seq = 0
    /\ now = 0
    /\ last = Response("start", AnyMethod, NoUser, 0, 0, "", "ok", {})

\* -------------------------------------------------------- the read views
\* GET /
PostListView ==
    \E user \in Requesters :
        /\ last' = Response("index", "GET", user, 0, 0, "", "ok",
                            PostListView_get_queryset)
        /\ UNCHANGED <<store, now>>

\* GET /posts/<post_id>/
PostDetailView ==
    \E user \in Requesters, p \in PostIds :
        /\ last' = IF p \notin DOMAIN posts
                   THEN Response("post_detail", "GET", user, p, 0, "", "not_found", {})
                   ELSE IF PostDetailView_get_object(user, p)
                   THEN Response("post_detail", "GET", user, p, 0, "", "ok", {p})
                   ELSE Response("post_detail", "GET", user, p, 0, "", "not_found", {})
        /\ UNCHANGED <<store, now>>

\* GET /profile/<username>/
ProfileView ==
    \E user \in Requesters, name \in Names :
        LET found == {u \in DOMAIN users : users[u].username = name} IN
        /\ last' = IF found = {}
                   THEN Response("profile", "GET", user, 0, 0, name, "not_found", {})
                   ELSE Response("profile", "GET", user, 0, 0, name, "ok",
                          ProfileView_get_queryset(user,
                                                   CHOOSE u \in found : TRUE))
        /\ UNCHANGED <<store, now>>

\* GET /category/<category_slug>/
CategoryPostsView ==
    \E user \in Requesters, slug \in Slugs \cup {MissingSlug} :
        /\ last' = IF CategoryPostsView_get_category(slug) = {}
                   THEN Response("category_posts", "GET", user, 0, 0, slug,
                                 "not_found", {})
                   ELSE Response("category_posts", "GET", user, 0, 0, slug, "ok",
                                 CategoryPostsView_get_queryset(slug))
        /\ UNCHANGED <<store, now>>

\* ------------------------------------------------------- the post views
\* GET/POST /posts/create/ ; form is the data a POST submits
PostCreateView(forms) ==
    \E user \in Requesters :
        IF ~is_authenticated(user)
        THEN /\ last' = Response("create_post", AnyMethod, user, 0, 0, "",
                                 "redirect_login", {})
             /\ UNCHANGED <<store, now>>
        ELSE \E method \in Methods : \E form \in Submitted(method, forms) :
        IF method = "GET" \/ ~PostForm_is_valid(form)
        THEN /\ last' = Response("create_post", method, user, 0, 0, "", "ok", {})
             /\ UNCHANGED <<store, now>>
        ELSE /\ post_seq < MaxPostId
             /\ LET blank == [author |-> NoUser, category |-> form.category,
                              is_published |-> FALSE, pub_date |-> 0]
                    built == PostForm_construct_instance(blank, form)
                    instance == [built EXCEPT !.author = user]
                IN  posts' = Put(posts, post_seq + 1, instance)
             /\ post_seq' = post_seq + 1
             /\ last' = Response("create_post", method, user, post_seq + 1, 0, "",
                                 "redirect_profile", {})
             /\ UNCHANGED <<users, categories, comments, comment_seq, now>>

\* GET/POST /posts/<post_id>/edit/ ; dispatch looks the post up and tests
\* the owner before LoginRequiredMixin.dispatch is reached
PostUpdateView(forms) ==
    \E user \in Requesters, p \in PostIds :
        IF p \notin DOMAIN posts
        THEN /\ last' = Response("edit_post", AnyMethod, user, p, 0, "", "not_found", {})
             /\ UNCHANGED <<store, now>>
        ELSE IF ~PostUpdateView_is_owner(user, p)
        THEN /\ last' = Response("edit_post", AnyMethod, user, p, 0, "",
                                 "redirect_detail", {})
             /\ UNCHANGED <<store, now>>
        ELSE IF ~is_authenticated(user)
        THEN /\ last' = Response("edit_post", AnyMethod, user, p, 0, "",
                                 "redirect_login", {})
             /\ UNCHANGED <<store, now>>
        ELSE \E method \in Methods : \E form \in Submitted(method, forms) :
        IF method = "GET" \/ ~PostForm_is_valid(form)
        THEN /\ last' = Response("edit_post", method, user, p, 0, "", "ok", {})
             /\ UNCHANGED <<store, now>>
        ELSE /\ posts' = Put(posts, p,
                             PostForm_construct_instance(posts[p], form))
             /\ last' = Response("edit_post", method, user, p, 0, "",
                                 "redirect_detail", {})
             /\ UNCHANGED <<users, categories, comments, post_seq,
                            comment_seq, now>>

\* GET/POST /posts/<post_id>/delete/
PostDeleteView ==
    \E user \in Requesters, p \in PostIds :
        IF ~is_authenticated(user)
        THEN /\ last' = Response("delete_post", AnyMethod, user, p, 0, "",
                                 "redirect_login", {})
             /\ UNCHANGED <<store, now>>
        ELSE IF p \notin PostDeleteView_get_queryset(user)
        THEN /\ last' = Response("delete_post", AnyMethod, user, p, 0, "",
                                 "not_found", {})
             /\ UNCHANGED <<store, now>>
        ELSE \E method \in Methods :
        IF method = "GET"
        THEN /\ last' = Response("delete_post", method, user, p, 0, "", "ok", {})
             /\ UNCHANGED <<store, now>>
        ELSE /\ posts' = Drop(posts, {p})
             /\ comments' = Drop(comments, CommentsOf({p}))
             /\ last' = Response("delete_post", method, user, p, 0, "",
                                 "redirect_index", {})
             /\ UNCHANGED <<users, categories, post_seq, comment_seq, now>>

\* ------------------------------------------------------ the user views
\* GET/POST /profile/edit/ ; form is the submitted username
EditProfileView ==
    \E user \in Requesters :
        IF ~is_authenticated(user)
        THEN /\ last' = Response("edit_profile", AnyMethod, user, 0, 0, "",
                                 "redirect_login", {})
             /\ UNCHANGED <<store, now>>
        ELSE \E method \in Methods : \E form \in Submitted(method, Names) :
        IF method = "GET" \/ ~UserProfileForm_is_valid(user, form)
        THEN /\ last' = Response("edit_profile", method, user, 0, 0, "", "ok", {})
             /\ UNCHANGED <<store, now>>
        ELSE /\ users' = Put(users, user, [username |-> form])
             /\ last' = Response("edit_profile", method, user, 0, 0, form,
                                 "redirect_profile", {})
             /\ UNCHANGED <<categories, posts, comments, post_seq,
                            comment_seq, now>>

\* --------------------------------------------------- the comment views
\* GET/POST /posts/<post_id>/comment/ ; form is the submitted text, and
\* an empty text fails validation
AddCommentView ==
    \E user \in Requesters, p \in PostIds :
        IF ~is_authenticated(user)
        THEN /\ last' = Response("add_comment", AnyMethod, user, p, 0, "",
                                 "redirect_login", {})
             /\ UNCHANGED <<store, now>>
        ELSE \E method \in Methods :
             \E form \in Submitted(method, Texts \cup {""}) :
        IF method = "GET" \/ form = ""
        THEN /\ last' = Response("add_comment", method, user, p, 0, "", "ok", {})
             /\ UNCHANGED <<store, now>>
        ELSE IF p \notin DOMAIN posts
        THEN /\ last' = Response("add_comment", method, user, p, 0, "",
                                 "not_found", {})
             /\ UNCHANGED <<store, now>>
        ELSE /\ comment_seq < MaxCommentId
             /\ comments' = Put(comments, comment_seq + 1,
                                [author |-> user, post |-> p, text |-> form])
             /\ comment_seq' = comment_seq + 1
             /\ last' = Response("add_comment", method, user, p, comment_seq + 1, "",
                                 "redirect_detail", {})
             /\ UNCHANGED <<users, categories, posts, post_seq, now>>

\* GET/POST /posts/<post_id>/comment/<comment_id>/edit/ ; the post_id of
\* the URL only builds the success URL and is left out; dispatch looks the
\* comment up and tests the owner before LoginRequiredMixin.dispatch
EditCommentView ==
    \E user \in Requesters, c \in CommentIds :
        IF c \notin DOMAIN comments
        THEN /\ last' = Response("edit_comment", AnyMethod, user, 0, c, "",
                                 "not_found", {})
             /\ UNCHANGED <<store, now>>
        ELSE IF ~EditCommentView_is_owner(user, c)
        THEN /\ last' = Response("edit_comment", AnyMethod, user, 0, c, "",
                                 "forbidden", {})
             /\ UNCHANGED <<store, now>>
        ELSE IF ~is_authenticated(user)
        THEN /\ last' = Response("edit_comment", AnyMethod, user, 0, c, "",
                                 "redirect_login", {})
             /\ UNCHANGED <<store, now>>
        ELSE \E method \in Methods :
             \E form \in Submitted(method, Texts \cup {""}) :
        IF method = "GET" \/ form = ""
        THEN /\ last' = Response("edit_comment", method, user, 0, c, "", "ok", {})
             /\ UNCHANGED <<store, now>>
        ELSE /\ comments' = Put(comments, c, [comments[c] EXCEPT !.text = form])
             /\ last' = Response("edit_comment", method, user, 0, c, "",
                                 "redirect_detail", {})
             /\ UNCHANGED <<users, categories, posts, post_seq,
                            comment_seq, now>>

\* GET/POST /posts/<post_id>/comment/<comment_id>/delete/
DeleteCommentView ==
    \E user \in Requesters, c \in CommentIds :
        IF c \notin DOMAIN comments
        THEN /\ last' = Response("delete_comment", AnyMethod, user, 0, c, "",
                                 "not_found", {})
             /\ UNCHANGED <<store, now>>
        ELSE IF ~DeleteCommentView_is_owner(user, c)
        THEN /\ last' = Response("delete_comment", AnyMethod, user, 0, c, "",
                                 "forbidden", {})
             /\ UNCHANGED <<store, now>>
        ELSE IF ~is_authenticated(user)
        THEN /\ last' = Response("delete_comment", AnyMethod, user, 0, c, "",
                                 "redirect_login", {})
             /\ UNCHANGED <<store, now>>
        ELSE \E method \in Methods :
        IF method = "GET"
        THEN /\ last' = Response("delete_comment", method, user, 0, c, "", "ok", {})
             /\ UNCHANGED <<store, now>>
        ELSE /\ comments' = Drop(comments, {c})
             /\ last' = Response("delete_comment", method, user, 0, c, "",
                                 "redirect_detail", {})
             /\ UNCHANGED <<users, categories, posts, post_seq,
                            comment_seq, now>>

\* ------------------------------------------------ the admin and the clock
\* /admin/: a category has its is_published flag set
AdminSaveCategory ==
    \E slug \in DOMAIN categories, flag \in BOOLEAN :
        /\ categories' = Put(categories, slug, [is_published |-> flag])
        /\ last' = Response("admin", "POST", NoUser, 0, 0, slug, "ok", {})
        /\ UNCHANGED <<users, posts, comments, post_seq, comment_seq, now>>

\* time passes
Tick ==
    /\ now < MaxTime
    /\ now' = now + 1
    /\ last' = Response("tick", AnyMethod, NoUser, 0, 0, "", "ok", {})
    /\ UNCHANGED store

\* ------------------------------------------------------ specifications
\* posts, categories and the clock under the four read views
Next ==
    \/ PostListView
    \/ PostDetailView
    \/ ProfileView
    \/ CategoryPostsView
    \/ PostCreateView(ValidFormData)
    \/ PostUpdateView(ValidFormData)
    \/ PostDeleteView
    \/ AdminSaveCategory
    \/ Tick

Spec == Init /\ [][Next]_vars

\* the same under the two public listings
NextList ==
    \/ PostListView
    \/ CategoryPostsView
    \/ PostCreateView(ValidFormData)
    \/ PostUpdateView(ValidFormData)
    \/ PostDeleteView
    \/ AdminSaveCategory
    \/ Tick

SpecList == Init /\ [][NextList]_vars

\* the same under the detail view
NextDetail ==
    \/ PostDetailView
    \/ PostCreateView(ValidFormData)
    \/ PostUpdateView(ValidFormData)
    \/ PostDeleteView
    \/ AdminSaveCategory
    \/ Tick

SpecDetail == Init /\ [][NextDetail]_vars

\* posts and profiles under the post and profile forms
NextPost ==
    \/ PostCreateView(SpoofedFormData)
    \/ PostUpdateView(SpoofedFormData)
    \/ PostDeleteView
    \/ EditProfileView

SpecPost == Init /\ [][NextPost]_vars

\* posts and their comments; the posts differ in their authors only
NextComment ==
    \/ PostCreateView(PlainFormData)
    \/ PostDeleteView
    \/ AddCommentView
    \/ EditCommentView
    \/ DeleteCommentView

SpecComment == Init /\ [][NextComment]_vars

\* ------------------------------------------------------------ the claims
\* the visibility predicate of a stored post
VisibilityPredicate(p) ==
    /\ posts[p].is_published
    /\ posts[p].pub_date <= now
    /\ categories[posts[p].category].is_published

AuthRoutes ==
    {"create_post", "edit_post", "delete_post", "edit_profile",
     "add_comment", "edit_comment", "delete_comment"}

ReadRoutes == {"index", "category_posts", "profile", "post_detail"}

\* C1: the global listing GET / shows, to every requester, exactly the
\* stored posts that are published, dated no later than now and filed
\* under a published category
C1_PublicListing ==
    last.route = "index" =>
        /\ last.status = "ok"
        /\ last.shown = {p \in DOMAIN posts : VisibilityPredicate(p)}

\* the author asked for the listing while a published, due post of theirs
\* is hidden by its category
C1_Witness ==
    /\ last.route = "index"
    /\ \E p \in DOMAIN posts :
        /\ posts[p].author = last.user
        /\ posts[p].is_published
        /\ posts[p].pub_date <= now
        /\ p \notin last.shown

\* C2: the detail view returns an existing post to its author and to
\* anyone when the post is visible, and answers not-found otherwise; a
\* missing id is not-found; the anonymous requester is never the author
C2_DetailView ==
    last.route = "post_detail" =>
        IF last.post_id \in DOMAIN posts
        THEN IF \/ posts[last.post_id].author = last.user
                \/ VisibilityPredicate(last.post_id)
             THEN last.status = "ok" /\ last.shown = {last.post_id}
             ELSE last.status = "not_found" /\ last.shown = {}
        ELSE last.status = "not_found" /\ last.shown = {}

\* the author was shown a post of theirs that fails the predicate
C2_Witness ==
    /\ last.route = "post_detail"
    /\ last.status = "ok"
    /\ last.post_id \in DOMAIN posts
    /\ posts[last.post_id].author = last.user
    /\ ~VisibilityPredicate(last.post_id)

\* C3: comment edit and comment delete by an authenticated requester take
\* effect only for the comment's author; anyone else gets 403 and the
\* comments are left as they were
C3_CommentOwnerOnly ==
    [][(/\ last'.route \in {"edit_comment", "delete_comment"}
        /\ last'.user \in DOMAIN users
        /\ last'.comment_id \in DOMAIN comments)
       => LET c == last'.comment_id IN
          IF last'.user = comments[c].author
          THEN /\ last'.status \in {"ok", "redirect_detail"}
               /\ last'.method = "GET" => comments' = comments
               /\ last'.status = "ok" => comments' = comments
               /\ (last'.route = "delete_comment" /\ last'.method = "POST")
                    => comments' = Drop(comments, {c})
               /\ (last'.route = "edit_comment"
                   /\ last'.status = "redirect_detail")
                    => /\ DOMAIN comments' = DOMAIN comments
                       /\ comments'[c].author = comments[c].author
                       /\ comments'[c].post = comments[c].post
                       /\ comments'[c].text \in Texts
                       /\ \A d \in DOMAIN comments \ {c} :
                              comments'[d] = comments[d]
          ELSE /\ last'.status = "forbidden"
               /\ store' = store]_vars

\* a registered user who is not the author was refused
C3_Witness ==
    /\ last.route \in {"edit_comment", "delete_comment"}
    /\ last.status = "forbidden"
    /\ last.user \in DOMAIN users
    /\ last.comment_id \in DOMAIN comments
    /\ comments[last.comment_id].author # last.user

\* C4: post update changes the store only for the post's author; any
\* other requester is redirected to the detail view and nothing changes
C4_PostOwnerOnly ==
    [][(/\ last'.route = "edit_post"
        /\ last'.post_id \in DOMAIN posts)
       => LET p == last'.post_id IN
          IF last'.user = posts[p].author
          THEN /\ last'.status \in {"ok", "redirect_detail"}
               /\ last'.status = "ok" => store' = store
               /\ last'.method = "GET" => last'.status = "ok"
               /\ last'.status = "redirect_detail"
                    => /\ DOMAIN posts' = DOMAIN posts
                       /\ posts'[p].category \in DOMAIN categories
                       /\ \A q \in DOMAIN posts \ {p} : posts'[q] = posts[q]
                       /\ UNCHANGED <<users, categories, comments>>
          ELSE /\ last'.status = "redirect_detail"
               /\ store' = store]_vars

\* a requester who is not the author was redirected to the detail view
C4_Witness ==
    /\ last.route = "edit_post"
    /\ last.status = "redirect_detail"
    /\ last.post_id \in DOMAIN posts
    /\ posts[last.post_id].author # last.user

\* C5: every auth-required route answers the anonymous requester with a
\* redirect to the login page, whatever the URL names
C5_LoginFirst ==
    (last.route \in AuthRoutes /\ last.user = Anonymous)
        => last.status = "redirect_login"

\* C6: no read route shows a requester a post that fails the visibility
\* predicate unless the requester is its author
C6_NoLeak ==
    last.route \in ReadRoutes =>
        \A p \in last.shown :
            VisibilityPredicate(p) \/ posts[p].author = last.user

\* C7: post delete by the author removes the post and all its comments;
\* by another registered user it is not-found and changes nothing; and
\* every stored comment refers to a stored post
C7_DeleteStep ==
    (/\ last'.route = "delete_post"
     /\ last'.user \in DOMAIN users
     /\ last'.post_id \in DOMAIN posts)
    => LET p == last'.post_id IN
       IF last'.user = posts[p].author
       THEN /\ last'.method = "POST"
              => /\ last'.status = "redirect_index"
                 /\ posts' = Drop(posts, {p})
                 /\ comments' = Drop(comments,
                        {c \in DOMAIN comments : comments[c].post = p})
            /\ last'.method = "GET" => store' = store
       ELSE /\ last'.status = "not_found"
            /\ store' = store

C7_PostDelete ==
    /\ [][C7_DeleteStep]_vars
    /\ [](\A c \in DOMAIN comments : comments[c].post \in DOMAIN posts)

\* a registered user asked to delete a commented post of somebody else
C7_Witness ==
    /\ last.route = "delete_post"
    /\ last.status = "not_found"
    /\ last.user \in DOMAIN users
    /\ last.post_id \in DOMAIN posts
    /\ posts[last.post_id].author # last.user
    /\ \E c \in DOMAIN comments : comments[c].post = last.post_id

\* C8: whenever a comment's text changes or the comment ceases to exist,
\* the step was a request made by the comment's author
C8_OnlyAuthorTouches ==
    [][\A c \in DOMAIN comments :
          (c \notin DOMAIN comments' \/ comments'[c].text # comments[c].text)
              => last'.user = comments[c].author]_vars

\* C8 as amended: a comment's text changes only by its author's edit,
\* and a comment ceases to exist only by its author's delete or by the
\* delete of its post by that post's author
C8_Amended ==
    [][\A c \in DOMAIN comments :
          /\ (c \in DOMAIN comments' /\ comments'[c].text # comments[c].text)
               => /\ last'.route = "edit_comment"
                  /\ last'.comment_id = c
                  /\ last'.user = comments[c].author
          /\ c \notin DOMAIN comments'
               => \/ /\ last'.route = "delete_comment"
                     /\ last'.comment_id = c
                     /\ last'.user = comments[c].author
                  \/ /\ last'.route = "delete_post"
                     /\ last'.post_id = comments[c].post
                     /\ last'.user = posts[comments[c].post].author]_vars

\* the author's edit of a comment took effect
C8_Witness ==
    /\ last.route = "edit_comment"
    /\ last.status = "redirect_detail"
    /\ last.comment_id \in DOMAIN comments
    /\ comments[last.comment_id].author = last.user

\* C9: the category page is not-found for a missing or unpublished
\* category and otherwise lists exactly the published, due posts of the
\* category; no listing shows a post of an unpublished category
C9_CategoryPage ==
    /\ last.route = "category_posts" =>
        IF /\ last.key \in DOMAIN categories
           /\ categories[last.key].is_published
        THEN /\ last.status = "ok"
             /\ last.shown = {p \in DOMAIN posts :
                                 /\ posts[p].category = last.key
                                 /\ posts[p].is_published
                                 /\ posts[p].pub_date <= now}
        ELSE last.status = "not_found" /\ last.shown = {}
    /\ last.route \in {"index", "category_posts"} =>
        \A p \in last.shown : categories[posts[p].category].is_published

\* the page of an unpublished category holding a published, due post was
\* asked for
C9_Witness ==
    /\ last.route = "category_posts"
    /\ last.status = "not_found"
    /\ last.key \in DOMAIN categories
    /\ \E p \in DOMAIN posts :
        /\ posts[p].category = last.key
        /\ posts[p].is_published
        /\ posts[p].pub_date <= now

\* C10: a new post's author is the requester who created it, and no step
\* changes the author of a stored post
C10_AuthorIsCreator ==
    [][\A p \in DOMAIN posts' :
          IF p \in DOMAIN posts
          THEN posts'[p].author = posts[p].author
          ELSE /\ last'.route = "create_post"
               /\ last'.user \in DOMAIN users
               /\ posts'[p].author = last'.user]_vars

\* the author's edit of a post took effect
C10_Witness ==
    /\ last.route = "edit_post"
    /\ last.method = "POST"
    /\ last.status = "redirect_detail"
    /\ last.post_id \in DOMAIN posts
    /\ posts[last.post_id].author = last.user
====
